---- MODULE Spec2Model ----
(***************************************************************************)
(* fiobatch: the batch execution engine (fiobatch.py) that reads a         *)
(* parameter file, expands its sweep into fio jobs and runs them one after *)
(* the other, and joinhobo (joinhobo.py), which pairs the "start" and      *)
(* "stop" lines of the engine's log, normalizes the fio results and joins  *)
(* them with the power measurements of a HOBO logger.                      *)
(*                                                                         *)
(* The engine is one sequential process; pc is its position, one action    *)
(* per blocking call.  The fio processes it spawns are the only other      *)
(* activity: a process the engine stopped waiting for ends by ProcExit.    *)
(* Templates are taken to render and to hold a filename= line; --fstrim    *)
(* is taken as not given.  A parameter file that is a mapping names its    *)
(* replicates.                                                             *)
(*                                                                         *)
(* In joinhobo all timestamps are on one clock, the jobs of a log have the *)
(* same parameter names, as the jobs of one sweep have, and a column of    *)
(* the fio file holds texts of the shapes the two passes tell apart.       *)
(***************************************************************************)
EXTENDS Integers, Sequences, FiniteSets, TLC

\* ------------------------------------------------------------------ bounds
\* number of sweep parameters under "fio"
MaxParams == 2
\* length of one parameter's candidate list
MaxCandidates == 2
\* number of FIO template files on the command line
MaxTemplates == 2
\* value of "replicates"
MaxReplicates == 2
\* jobs of one run whose tools and hooks may fail
MaxJobs == 2
\* jobs of one run whose tools all succeed
MaxSweepJobs == 8
\* lines of the output of one fio invocation
MaxLines == 2
\* jobs of one run that starts at the parameter file
MaxConfigJobs == 4
\* combinations per template that random.shuffle permutes
MaxShuffled == 4
\* lines of a log file handed to joinhobo
MaxLogLen == 4
\* batchids occurring in such a log file
MaxLogIds == 2
\* measurements in a HOBO file
MaxSamples == 2
\* data rows of a fio result file
MaxFioRows == 2

\* --------------------------------------------------------------- utilities
None == <<>>
Some(x) == <<x>>

SeqsUpTo(S, n) == UNION {[1..k -> S] : k \in 0..n}

RECURSIVE Prod(_)
Prod(lens) == IF lens = <<>> THEN 1 ELSE Head(lens) * Prod(Tail(lens))

RECURSIVE Flatten(_)
Flatten(ss) == IF ss = <<>> THEN <<>> ELSE Head(ss) \o Flatten(Tail(ss))

\* the permutations of 1..n, as sequences
RECURSIVE Perms(_)
Perms(n) ==
    IF n = 0 THEN { <<>> }
    ELSE {[i \in 1..n |-> IF i < k THEN p[i] ELSE IF i = k THEN n ELSE p[i - 1]] :
            p \in Perms(n - 1), k \in 1..n}

\* names of the sweep parameters, in the key order of the "fio" mapping
KeyNames == <<"bs", "iodepth", "rw">>

\* ------------------------------------------------------------------- state
VARIABLES
    cmdline,        \* parsed command line: timeout, before, norandom, cooldown, no_drop_caches
    fio_params,     \* cmdline.fio_params: candidate list per parameter, in key order
    templates,      \* number of templates (cmdline.templates)
    replicate_list, \* cmdline.parameters['replicate']
    last_batchid,   \* FioJob.__last_batchid
    heap,           \* the FioJob objects, by reference (1..Len(heap))
    all_jobs,       \* main: dict replicate -> list of job references
    replicate_jobs, \* main: job references of the replicate being run
    rep_idx,        \* main: position in replicate_list
    job_num,        \* main: position in replicate_jobs
    pc,             \* position of the engine
    log,            \* the lines written by the logger
    output,         \* the rows written to cmdline.output
    summary,        \* the counts of the final "Jobs: ..." line, None before
    events,         \* joinhobo: result of read_log, None before
    parameters,     \* the document json.load returned for the parameter file
    hobo,           \* joinhobo: the frame of power measurements
    fio,            \* joinhobo: the frame of fio results
    joined          \* joinhobo main: the joined frame, None before

vars == <<cmdline, fio_params, templates, replicate_list, last_batchid, heap,
          all_jobs, replicate_jobs, rep_idx, job_num, pc, log, output,
          summary, events, parameters, hobo, fio, joined>>

\* zip in the place of product: the i-th candidates of all lists together
product_zip(lists) ==
    IF lists = <<>> THEN << <<>> >>
    ELSE LET m == CHOOSE n \in {Len(lists[k]) : k \in 1..Len(lists)} :
                      \A k \in 1..Len(lists) : n <= Len(lists[k])
         IN [i \in 1..m |-> [k \in 1..Len(lists) |-> lists[k][i]]]

\* itertools.product: the rightmost list varies fastest
RECURSIVE product(_)
product(lists) ==
    IF lists = <<>> THEN << <<>> >>
    ELSE LET rest == product(Tail(lists))
             hd == Head(lists)
         IN Flatten([i \in 1..Len(hd) |->
                        [j \in 1..Len(rest) |-> <<hd[i]>> \o rest[j]]])

\* FioJob.__str__: 'k=v' pairs of the mapping, parameters first, replicate last
JobStr(mapping, replicate) ==
    [i \in 1..Len(mapping) |-> <<KeyNames[i], mapping[i]>>]
        \o << <<"replicate", replicate>> >>

\* one line of the log: '{asctime}|{levelname}|{message}'.  nfields is the
\* number of '|'-separated fields of the line
LogLine(time, level, event, batchid, params) ==
    [time |-> time, level |-> level, event |-> event, batchid |-> batchid,
     params |-> params,
     nfields |-> IF event \in {"start", "stop"} THEN 5 ELSE 3]

Logged(lg, level, event) ==
    Append(lg, LogLine(Len(lg) + 1, level, event, 0, <<>>))

LoggedJob(lg, level, event, job) ==
    Append(lg, LogLine(Len(lg) + 1, level, event, job.batchid,
                       JobStr(job.mapping, job.replicate)))

\* ------------------------------------------------------------ configuration
\* FioJob.__last_batchid = random.randrange(2**16)*100
BatchidBases == {100}

\* a candidate list with n distinct values
Candidates(n) == [i \in 1..n |-> i]

Cmdlines ==
    [timeout : BOOLEAN, before : BOOLEAN, norandom : BOOLEAN,
     cooldown : BOOLEAN, no_drop_caches : BOOLEAN]

Sweeps == SeqsUpTo({Candidates(n) : n \in 0..MaxCandidates}, MaxParams)

Lens(params) == [i \in 1..Len(params) |-> Len(params[i])]

\* ------------------------------------------------------- parameter file
\* a JSON value of the kinds read_params tells apart
JsonInt(n) == [type |-> "int", v |-> n]
JsonStr(n) == [type |-> "str", v |-> n]
JsonBool(b) == [type |-> "bool", v |-> IF b THEN 1 ELSE 0]
JsonList(l) == [type |-> "list", v |-> l]

\* the entry of KeyNames[i] in the "fio" mapping, or of a key named name
FioEntry(name, value) == [name |-> name, value |-> value]

\* the document of a parameter file: what json.load returns.  The keys
\* "replicates", "replicate" and "fio" are None where the document lacks them
JsonDoc(type, replicates, replicate, entries) ==
    [type |-> type, replicates |-> replicates, replicate |-> replicate,
     fio |-> entries]

\* the well-formed document that parses to the sweep params and the list reps
RawDoc(params, reps) ==
    JsonDoc("dict", None, Some(JsonList(reps)),
            Some([i \in 1..Len(params) |->
                     FioEntry(KeyNames[i], JsonList(params[i]))]))

\* FioJob.fio_headers.split(';'), the first of the columns of the terse format
fio_cols == {"terse_version_3", "fio_version", "jobname", "groupid", "error"}

\* the logger bound before parse_cmdline: the call logs and returns
logger_bound == ""

\* a call of logger.fatal or logger.warning while parse_cmdline runs: the
\* global logger is bound at line 262 only, after parse_cmdline has returned
logger_call == "NameError"

\* range(1, n + 1) with the start left out
range_from_0(n) == [i \in 1..(n + 1) |-> i - 1]

\* read_params, line 104: list(range(1, n + 1))
range_from_1(n) == [i \in 1..n |-> i]

\* read_params, lines 94-95.  st holds params and the exception raised, ""
\* while none is
check_dict(st) ==
    IF st.params.type # "dict" THEN [st EXCEPT !.exc = logger_call] ELSE st

\* read_params, lines 99-109
read_replicates(st) ==
    LET p == st.params
    IN IF st.exc # "" THEN st
       ELSE IF p.replicates # None
       THEN LET e1 == IF p.replicate # None THEN logger_call ELSE ""
                e2 == IF e1 # "" THEN e1
                      ELSE IF p.replicates[1].type # "int" THEN logger_call ELSE ""
                e3 == IF e2 # "" THEN e2
                      ELSE IF p.replicates[1].type = "str" THEN "TypeError" ELSE ""
            IN IF e3 # "" THEN [st EXCEPT !.exc = e3]
               ELSE [st EXCEPT
                       !.params.replicate =
                           Some(JsonList(range_from_1(p.replicates[1].v))),
                       !.params.replicates = None]
       ELSE IF p.replicate # None /\ p.replicate[1].type # "list"
       THEN [st EXCEPT !.params.replicate = Some(JsonList(<<p.replicate[1].v>>))]
       ELSE st

\* read_params, lines 111-119
read_fio_params(st) ==
    LET p == st.params
    IN IF st.exc # "" THEN st
       ELSE IF p.fio # None
       THEN LET entries == p.fio[1]
                wrapped == [i \in 1..Len(entries) |->
                              IF entries[i].value.type # "list"
                              THEN FioEntry(entries[i].name,
                                            JsonList(<<entries[i].value.v>>))
                              ELSE entries[i]]
            IN IF \E i \in 1..Len(entries) : entries[i].name \in fio_cols
               THEN [exc |-> logger_call, params |-> [p EXCEPT !.fio = Some(wrapped)]]
               ELSE [st EXCEPT !.params.fio = Some(wrapped)]
       ELSE [st EXCEPT !.exc = logger_call]

\* read_params: the dictionary returned, or the exception that leaves it
read_params(doc) ==
    read_fio_params(read_replicates(check_dict([exc |-> "", params |-> doc])))

\* the state after parse_cmdline and setup_logger, before main(), of the
\* runs that construct at most maxjobs jobs
EngineInit(cmdlines, maxjobs) ==
    /\ cmdline \in cmdlines
    /\ fio_params \in Sweeps
    /\ templates \in 1..MaxTemplates
    /\ replicate_list \in {Candidates(n) : n \in 0..MaxReplicates}
    /\ templates * Prod(Lens(fio_params)) * Len(replicate_list) <= maxjobs
    /\ ~cmdline.norandom => Prod(Lens(fio_params)) <= MaxShuffled
    /\ last_batchid \in BatchidBases
    /\ heap = <<>>
    /\ all_jobs = <<>>
    /\ replicate_jobs = <<>>
    /\ rep_idx = 1
    /\ job_num = 1
    /\ pc = "main"
    /\ log = <<>>
    /\ output = <<>>
    /\ summary = None
    /\ events = None
    /\ parameters = RawDoc(fio_params, replicate_list)
    /\ hobo = <<>>
    /\ fio = <<>>
    /\ joined = None

Init == EngineInit(Cmdlines, MaxJobs)

\* parse_cmdline, lines 138-139, on the document of the parameter file:
\* an exception out of read_params, or out of parameters['fio'], ends the
\* program before setup_logger and main
ParseCmdline ==
    /\ pc = "parse_cmdline"
    /\ LET r == read_params(parameters)
       IN IF r.exc # "" \/ r.params.fio = None
          THEN /\ pc' = "crashed"
               /\ UNCHANGED <<fio_params, replicate_list>>
          ELSE /\ fio_params' = [i \in 1..Len(r.params.fio[1]) |->
                                    r.params.fio[1][i].value.v]
               /\ replicate_list' = r.params.replicate[1].v
               /\ pc' = "main"
    /\ UNCHANGED <<cmdline, templates, last_batchid, heap, all_jobs,
                   replicate_jobs, rep_idx, job_num, log, output, summary,
                   events, parameters, hobo, fio, joined>>

\* ------------------------------------------------------------------ engine
\* FioJob.__init__
FioJob(batchid, template, mapping, replicate) ==
    [batchid |-> batchid, template |-> template, mapping |-> mapping,
     replicate |-> replicate, success |-> "None", before |-> "notrun",
     proc |-> "none", returncode |-> None, timedout |-> FALSE,
     stdout |-> None]

\* the job the loop of main is at
CurRef == replicate_jobs[job_num]
CurJob == heap[CurRef]

\* main, lines 205-208: the header row
MainHeader ==
    /\ pc = "main"
    /\ output' = Append(output,
          [job |-> 0,
           prefix |-> <<"replicate">> \o SubSeq(KeyNames, 1, Len(fio_params)),
           line |-> "fio_headers"])
    /\ log' = Logged(log, "INFO", "Started")
    /\ pc' = "replicate"
    /\ UNCHANGED <<cmdline, fio_params, templates, replicate_list, last_batchid,
                   heap, all_jobs, replicate_jobs, rep_idx, job_num, summary,
                   events, parameters, hobo, fio, joined>>

\* next_batchid starting over with every template
NewJobsPerTemplate(replicate, perm) ==
    LET base == product(fio_params)
        n == Len(base)
    IN [i \in 1..(templates * n) |->
          LET t == ((i - 1) \div n) + 1
              k == ((i - 1) % n) + 1
          IN FioJob(last_batchid + k, t, base[perm[t][k]], replicate)]

\* the jobs main constructs for one replicate: for every template the
\* product of the candidate lists, in the order perm[t] (random.shuffle)
NewJobs(replicate, perm) ==
    LET base == product(fio_params)
        n == Len(base)
    IN [i \in 1..(templates * n) |->
          LET t == ((i - 1) \div n) + 1
              k == ((i - 1) % n) + 1
          IN FioJob(last_batchid + i, t, base[perm[t][k]], replicate)]

\* n draws with replacement in the place of a shuffle
ShufflesWithReplacement(n) ==
    IF cmdline.norandom
    THEN {[t \in 1..templates |-> [k \in 1..n |-> k]]}
    ELSE [1..templates -> [1..n -> 1..n]]

\* main, lines 218-220: the orders random.shuffle may leave the n
\* combinations of each template in; the order of product with --norandom
Shuffles(n) ==
    IF cmdline.norandom
    THEN {[t \in 1..templates |-> [k \in 1..n |-> k]]}
    ELSE [1..templates -> Perms(n)]

\* main, lines 211-230: one iteration of the replicate loop up to the job loop
StartReplicate ==
    /\ pc = "replicate"
    /\ rep_idx <= Len(replicate_list)
    /\ LET replicate == replicate_list[rep_idx]
           n == Len(product(fio_params))
       IN \E perm \in Shuffles(n) :
            /\ LET new == NewJobs(replicate, perm)
                   refs == [i \in 1..Len(new) |-> Len(heap) + i]
               IN /\ heap' = heap \o new
                  /\ last_batchid' = last_batchid + Len(new)
                  /\ replicate_jobs' = refs
                  /\ all_jobs' = [r \in DOMAIN all_jobs \cup {replicate} |->
                                     IF r = replicate THEN refs ELSE all_jobs[r]]
                  /\ log' = Logged(Logged(log, "INFO", "Starting replicate"),
                                   "INFO", "Number of jobs")
    /\ job_num' = 1
    /\ pc' = "job"
    /\ UNCHANGED <<cmdline, fio_params, templates, replicate_list, rep_idx,
                   output, summary, events, parameters, hobo, fio, joined>>

\* main, line 250: the job loop of the replicate is exhausted
FinishReplicate ==
    /\ pc = "job"
    /\ job_num > Len(replicate_jobs)
    /\ log' = Logged(log, "INFO", "Finished replicate")
    /\ rep_idx' = rep_idx + 1
    /\ pc' = "replicate"
    /\ UNCHANGED <<cmdline, fio_params, templates, replicate_list, last_batchid,
                   heap, all_jobs, replicate_jobs, job_num, output, summary,
                   events, parameters, hobo, fio, joined>>

\* drop_caches (fstrim not requested): sync, then the kernel cache drop
DropCachesLog(lg) ==
    IF cmdline.no_drop_caches
    THEN lg
    ELSE Logged(Logged(lg, "INFO", "sync"), "INFO", "drop caches")

\* main, lines 233-242
DropCaches ==
    /\ pc = "job"
    /\ job_num <= Len(replicate_jobs)
    /\ log' = DropCachesLog(log)
    /\ pc' = "cooldown"
    /\ UNCHANGED <<cmdline, fio_params, templates, replicate_list, last_batchid,
                   heap, all_jobs, replicate_jobs, rep_idx, job_num, output,
                   summary, events, parameters, hobo, fio, joined>>

\* main, lines 244-248
Cooldown ==
    /\ pc = "cooldown"
    /\ log' = IF cmdline.cooldown
              THEN Logged(Logged(log, "INFO", "Starting job"), "INFO", "cooldown")
              ELSE Logged(log, "INFO", "Starting job")
    /\ pc' = "run"
    /\ UNCHANGED <<cmdline, fio_params, templates, replicate_list, last_batchid,
                   heap, all_jobs, replicate_jobs, rep_idx, job_num, output,
                   summary, events, parameters, hobo, fio, joined>>

\* the results of the pre-hook command: exit code and whether it printed
BeforeResults == [rc : {0, 1}, out : BOOLEAN]

\* FioJob.run_before, lines 52-55: what follows a pre-hook result.  The
\* operand of logger.error, a str concatenated with result.stderr (bytes,
\* since sp.run captures without text mode), raises TypeError before the
\* logger is called; nothing in run or main catches it
BeforeOutcome(res) ==
    IF res.rc # 0 THEN "TypeError" ELSE IF res.out THEN "logged" ELSE "silent"

\* FioJob.run, line 59: run_before
RunBefore ==
    /\ pc = "run"
    /\ IF ~cmdline.before
       THEN /\ pc' = "start"
            /\ UNCHANGED <<heap, log>>
       ELSE \E res \in BeforeResults :
              LET lg == Logged(log, "INFO", "Before")
                  what == BeforeOutcome(res)
              IN /\ heap' = [heap EXCEPT ![CurRef].before =
                               IF res.rc = 0 THEN "zero" ELSE "nonzero"]
                 /\ log' = CASE what = "logged" -> Logged(lg, "INFO", "Output")
                             [] OTHER -> lg
                 /\ pc' = IF what = "TypeError" THEN "crashed" ELSE "start"
    /\ UNCHANGED <<cmdline, fio_params, templates, replicate_list, last_batchid,
                   all_jobs, replicate_jobs, rep_idx, job_num, output, summary,
                   events, parameters, hobo, fio, joined>>

\* the caches dropped by run, after run_before, as well
PopenAfterDropCaches ==
    /\ pc = "start"
    /\ log' = LoggedJob(DropCachesLog(log), "INFO", "start", CurJob)
    /\ heap' = [heap EXCEPT ![CurRef].proc = "running"]
    /\ pc' = "communicate"
    /\ UNCHANGED <<cmdline, fio_params, templates, replicate_list, last_batchid,
                   all_jobs, replicate_jobs, rep_idx, job_num, output, summary,
                   events, parameters, hobo, fio, joined>>

\* FioJob.run, lines 60-62: the "start" line, then Popen
Popen ==
    /\ pc = "start"
    /\ log' = LoggedJob(log, "INFO", "start", CurJob)
    /\ heap' = [heap EXCEPT ![CurRef].proc = "running"]
    /\ pc' = "communicate"
    /\ UNCHANGED <<cmdline, fio_params, templates, replicate_list, last_batchid,
                   all_jobs, replicate_jobs, rep_idx, job_num, output, summary,
                   events, parameters, hobo, fio, joined>>

\* the "stop" line written on the way out of a timeout as well
CommunicateTimeoutStop ==
    /\ pc = "communicate"
    /\ cmdline.timeout
    /\ log' = Logged(LoggedJob(log, "INFO", "stop", CurJob),
                     "ERROR", "Timeout waiting for")
    /\ heap' = [heap EXCEPT ![CurRef].timedout = TRUE,
                            ![CurRef].success = "False"]
    /\ job_num' = job_num + 1
    /\ pc' = "job"
    /\ UNCHANGED <<cmdline, fio_params, templates, replicate_list, last_batchid,
                   all_jobs, replicate_jobs, rep_idx, output, summary, events,
                   parameters, hobo, fio, joined>>

\* FioJob.run, lines 66-69: communicate raises TimeoutExpired.  Nothing
\* kills or waits for self.proc, so the child keeps running
CommunicateTimeout ==
    /\ pc = "communicate"
    /\ cmdline.timeout
    /\ log' = Logged(log, "ERROR", "Timeout waiting for")
    /\ heap' = [heap EXCEPT ![CurRef].timedout = TRUE,
                            ![CurRef].success = "False"]
    /\ job_num' = job_num + 1
    /\ pc' = "job"
    /\ UNCHANGED <<cmdline, fio_params, templates, replicate_list, last_batchid,
                   all_jobs, replicate_jobs, rep_idx, output, summary, events,
                   parameters, hobo, fio, joined>>

\* the terse output of one fio invocation: '\n'-terminated lines
OneLine == <<"r">>

\* str.rstrip('\n') on '\n'-terminated lines: the trailing empty lines go
RECURSIVE rstrip(_)
rstrip(lines) ==
    IF lines # <<>> /\ lines[Len(lines)] = ""
    THEN rstrip(SubSeq(lines, 1, Len(lines) - 1))
    ELSE lines

\* FioJob.run, lines 81-84: the text written for stdout.  '\n'.join of the
\* prefixed lines plus '\n': with no line left, one empty row
Rows(ref, job, stdout) ==
    LET lines == rstrip(stdout)
        to_prepend == <<job.replicate>> \o job.mapping
    IN IF lines = <<>>
       THEN << [job |-> ref, prefix |-> <<>>, line |-> ""] >>
       ELSE [i \in 1..Len(lines) |->
               [job |-> ref, prefix |-> to_prepend, line |-> lines[i]]]

\* the check of the return code left out
SuccessAlways(returncode) == "True"

\* FioJob.run, lines 71 and 86: the outcome of a job whose tool returned
Success(returncode) == IF returncode # 0 THEN "False" ELSE "True"

\* FioJob.run, lines 64-65 and 71-86: communicate returns, the tool having
\* ended with an exit code of rcs and printed one of stdouts
CommunicateReturn(rcs, stdouts) ==
    /\ pc = "communicate"
    /\ \E rc \in rcs : \E stdout \in stdouts :
         LET lg == LoggedJob(log, "INFO", "stop", CurJob)
             ok == Success(rc)
         IN /\ heap' = [heap EXCEPT ![CurRef].proc = "exited",
                                    ![CurRef].returncode = Some(rc),
                                    ![CurRef].stdout = Some(stdout),
                                    ![CurRef].success = ok]
            /\ log' = IF rc # 0 THEN Logged(lg, "ERROR", "Job return code is")
                                ELSE lg
            /\ output' = IF ok = "True"
                         THEN output \o Rows(CurRef, CurJob, stdout)
                         ELSE output
    /\ job_num' = job_num + 1
    /\ pc' = "job"
    /\ UNCHANGED <<cmdline, fio_params, templates, replicate_list, last_batchid,
                   all_jobs, replicate_jobs, rep_idx, summary, events,
                   parameters, hobo, fio, joined>>

\* a tool process the engine no longer waits for ends by itself
ProcExit ==
    /\ \E ref \in 1..Len(heap) :
         /\ heap[ref].proc = "running"
         /\ heap[ref].timedout
         /\ heap' = [heap EXCEPT ![ref].proc = "exited"]
    /\ UNCHANGED <<cmdline, fio_params, templates, replicate_list, last_batchid,
                   all_jobs, replicate_jobs, rep_idx, job_num, pc, log, output,
                   summary, events, parameters, hobo, fio, joined>>

RECURSIVE SumOver(_, _)
SumOver(S, f) ==
    IF S = {} THEN 0
    ELSE LET x == CHOOSE y \in S : TRUE IN f[x] + SumOver(S \ {x}, f)

\* main, line 254/255: sum(job.success == value for job in replicate_jobs)
CountJobs(refs, value) ==
    Cardinality({i \in 1..Len(refs) : heap[refs[i]].success = value})

\* main, lines 252-256, and the "All done" of line 266
Summary ==
    /\ pc = "replicate"
    /\ rep_idx > Len(replicate_list)
    /\ LET successes == SumOver(DOMAIN all_jobs,
                                [r \in DOMAIN all_jobs |-> CountJobs(all_jobs[r], "True")])
           fails == SumOver(DOMAIN all_jobs,
                            [r \in DOMAIN all_jobs |-> CountJobs(all_jobs[r], "False")])
       IN summary' = Some([completed |-> successes, failed |-> fails])
    /\ log' = Logged(Logged(log, "INFO", "Jobs: completed, failed"), "INFO", "All done")
    /\ pc' = "done"
    /\ UNCHANGED <<cmdline, fio_params, templates, replicate_list, last_batchid,
                   heap, all_jobs, replicate_jobs, rep_idx, job_num, output,
                   events, parameters, hobo, fio, joined>>

\* ---------------------------------------------------------------- joinhobo
\* read_log, lines 111-113: the 'k=v' pairs of a parameter string as a dict
ParseParams(p) ==
    [k \in {p[i][1] : i \in 1..Len(p)} |->
        p[CHOOSE i \in 1..Len(p) :
            /\ p[i][1] = k
            /\ \A j \in 1..Len(p) : p[j][1] = k => j <= i][2]]

\* read_log, lines 86-109: one line of the log.  st holds the locals
\* batchid, start_time, start_params, the rows collected and the warnings
ReadLine(st, line) ==
    IF line.nfields # 5 THEN st
    ELSE LET timestamp == line.time
             batchid == Some(line.batchid)
             params == line.params
             s1 == [st EXCEPT !.batchid = batchid]
         IN CASE line.event = "start" ->
                   IF st.start_time = None \/ st.start_params = None \/ batchid = None
                   THEN [s1 EXCEPT !.start_time = Some(timestamp),
                                   !.start_params = Some(params)]
                   ELSE [s1 EXCEPT !.warnings = Append(@,
                           [event |-> "start", params |-> params, time |-> timestamp])]
              [] line.event = "stop" ->
                   IF Some(params) = st.start_params
                   THEN [s1 EXCEPT !.data = Append(@,
                                      [batchid |-> batchid[1],
                                       start |-> st.start_time[1],
                                       stop |-> timestamp,
                                       params |-> ParseParams(params)]),
                                   !.batchid = None,
                                   !.start_time = None,
                                   !.start_params = None]
                   ELSE [s1 EXCEPT !.warnings = Append(@,
                           [event |-> "stop", params |-> params, time |-> timestamp])]
              [] OTHER ->
                   [s1 EXCEPT !.warnings = Append(@,
                      [event |-> "unrecognized", params |-> params, time |-> timestamp])]

RECURSIVE ReadLines(_, _)
ReadLines(st, lines) ==
    IF lines = <<>> THEN st ELSE ReadLines(ReadLine(st, Head(lines)), Tail(lines))

\* read_log: the rows of the returned frame, and what was printed by verbose
read_log(logfile) ==
    LET st == ReadLines([batchid |-> None, start_time |-> None,
                         start_params |-> None, data |-> <<>>,
                         warnings |-> <<>>], logfile)
    IN [data |-> st.data, warnings |-> st.warnings]

\* joinhobo main, line 353, on the log of a finished or aborted run
ReadLogFile ==
    /\ pc \in {"done", "crashed", "joinhobo"}
    /\ events = None
    /\ events' = Some(read_log(log))
    /\ UNCHANGED <<cmdline, fio_params, templates, replicate_list, last_batchid,
                   heap, all_jobs, replicate_jobs, rep_idx, job_num, pc, log,
                   output, summary, parameters, hobo, fio, joined>>

\* a frame: its columns and its rows, a row a function of the columns
Frame(columns, rows) == [columns |-> columns, rows |-> rows]

\* the cells of a frame.  A str cell is the text head, '%' if pct, and '='
\* and right unless right is None; a float f is held in hundredths, a tuple
\* is (f, n)
Cell(t, head, pct, right, f, n) ==
    [t |-> t, head |-> head, pct |-> pct, right |-> right, f |-> f, n |-> n]
Text(head, pct, right) == Cell("str", head, pct, right, 0, 0)
FloatCell(f) == Cell("float", "", FALSE, None, f, 0)
NaN == Cell("nan", "", FALSE, None, 0, 0)
IntCell(n) == Cell("int", "", FALSE, None, 0, n)
PairCell(f, n) == Cell("tuple", "", FALSE, None, f, n)

\* float() and int() of the texts that are numbers; they raise ValueError
\* on the others
Numbers == ("0" :> 0) @@ ("5" :> 5) @@ ("7" :> 7)

Cells(df, col) == [i \in 1..Len(df.rows) |-> df.rows[i][col]]

\* df.dtypes == object: a column of str cells or of tuples
ObjectCols(df) ==
    {c \in df.columns :
        \E i \in 1..Len(df.rows) : df.rows[i][c].t \in {"str", "tuple"}}

\* the frame with the column col replaced by cells under the name name
WithCol(df, col, name, cells) ==
    LET columns == (df.columns \ {col}) \cup {name}
    IN Frame(columns,
             [i \in 1..Len(df.rows) |->
                [c \in columns |-> IF c = name THEN cells[i] ELSE df.rows[i][c]]])

\* df.drop(col, axis=1)
WithoutCol(df, col) ==
    Frame(df.columns \ {col},
          [i \in 1..Len(df.rows) |-> [c \in df.columns \ {col} |-> df.rows[i][c]]])

\* an element of df[col].str.endswith('%') under all(): the .str methods
\* give NaN for a cell that is no str, and NaN counts as true
EndsWithPct(cell) == cell.t = "str" => (cell.pct /\ cell.right = None)

\* an element of df[col].str.contains('=') under all()
ContainsEq(cell) == cell.t = "str" => cell.right # None

\* convert_percentages, lines 281-288, for one column.  st holds the frame
\* and the exception raised, "" while none is; warning, called by the except
\* clause, is defined nowhere in joinhobo.py
PctCol(st, col) ==
    LET cells == Cells(st.df, col)
    IN IF st.exc # "" THEN st
       ELSE IF \E i \in 1..Len(cells) : ~EndsWithPct(cells[i]) THEN st
       ELSE IF \E i \in 1..Len(cells) :
                 cells[i].t = "str" /\ cells[i].head \notin DOMAIN Numbers
       THEN [st EXCEPT !.exc = "NameError"]
       ELSE [st EXCEPT !.df = WithCol(st.df, col, col,
                [i \in 1..Len(cells) |->
                    IF cells[i].t = "str" THEN FloatCell(Numbers[cells[i].head])
                    ELSE NaN])]

RECURSIVE PctCols(_, _)
PctCols(st, cols) ==
    IF cols = {} THEN st
    ELSE LET c == CHOOSE c \in cols : TRUE
         IN PctCols(PctCol(st, c), cols \ {c})

\* convert_percentages: the frame returned, or the exception that leaves it
convert_percentages(df) == PctCols([exc |-> "", df |-> df], ObjectCols(df))

\* convert_histogram, line 319: '%s_%gp' % (col, 100*fields[0].iloc[0])
NewName(col, left) ==
    CASE left = 0 -> "c_0p"
      [] left = 5 -> "c_5p"
      [] left = 500 -> "c_500p"

\* convert_histogram, lines 298-333, for one column.  Of a column of tuples
\* str.split gives NaN, a frame of the one column 0, so fields[1] raises
\* KeyError
HistCol(st, col) ==
    LET df == st.df
        cells == Cells(df, col)
        rows == 1..Len(cells)
        allpct == \A i \in rows : cells[i].pct
        left == [i \in rows |->
                    IF allpct THEN Numbers[cells[i].head]
                    ELSE 100 * Numbers[cells[i].head]]
        right == [i \in rows |-> Numbers[cells[i].right[1]]]
        newname == NewName(col, left[1])
    IN IF st.exc # "" THEN st
       ELSE IF \E i \in rows : ~ContainsEq(cells[i]) THEN st
       ELSE IF \E i \in rows : cells[i].t # "str"
       THEN [st EXCEPT !.exc = "KeyError"]
       ELSE IF \E i \in rows : (cells[i].head \notin DOMAIN Numbers)
                                \/ (~allpct /\ cells[i].pct)
       THEN [st EXCEPT !.exc = "ValueError"]
       ELSE IF \A i \in rows : left[i] = 0 /\ right[i] = 0
       THEN [st EXCEPT !.df = WithoutCol(df, col)]
       ELSE IF \A i, j \in rows : left[i] = left[j]
       THEN [st EXCEPT !.df = WithCol(df, col,
                IF newname \notin df.columns THEN newname ELSE col,
                [i \in rows |-> IntCell(right[i])])]
       ELSE [st EXCEPT !.df = WithCol(df, col, col,
                [i \in rows |-> PairCell(left[i], right[i])])]

RECURSIVE HistCols(_, _)
HistCols(st, cols) ==
    IF cols = {} THEN st
    ELSE LET c == CHOOSE c \in cols : TRUE
         IN HistCols(HistCol(st, c), cols \ {c})

\* convert_histogram: the frame returned, or the exception that leaves it
convert_histogram(df) == HistCols([exc |-> "", df |-> df], ObjectCols(df))

\* read_fio, lines 339-342, on the frame pd.read_csv returned
ReadFio ==
    /\ pc = "read_fio"
    /\ LET a == convert_percentages(fio)
           b == IF a.exc # "" THEN a ELSE convert_histogram(a.df)
       IN /\ fio' = b.df
          /\ pc' = IF b.exc = "" THEN "normalized" ELSE "crashed"
    /\ UNCHANGED <<cmdline, fio_params, templates, replicate_list, last_batchid,
                   heap, all_jobs, replicate_jobs, rep_idx, job_num, log, output,
                   summary, events, parameters, hobo, joined>>

\* convert_percentages applied to the frame read_fio returned
ConvertPercentages ==
    /\ pc = "normalized"
    /\ LET a == convert_percentages(fio)
       IN /\ fio' = a.df
          /\ pc' = IF a.exc = "" THEN "normalized" ELSE "crashed"
    /\ UNCHANGED <<cmdline, fio_params, templates, replicate_list, last_batchid,
                   heap, all_jobs, replicate_jobs, rep_idx, job_num, log, output,
                   summary, events, parameters, hobo, joined>>

\* convert_histogram applied to the frame read_fio returned
ConvertHistogram ==
    /\ pc = "normalized"
    /\ LET a == convert_histogram(fio)
       IN /\ fio' = a.df
          /\ pc' = IF a.exc = "" THEN "normalized" ELSE "crashed"
    /\ UNCHANGED <<cmdline, fio_params, templates, replicate_list, last_batchid,
                   heap, all_jobs, replicate_jobs, rep_idx, job_num, log, output,
                   summary, events, parameters, hobo, joined>>

\* main, line 367: hobo.loc[start:stop], a slice by label of the index of
\* timestamps; both of its ends belong to it
Window(hb, start, stop) ==
    {i \in 1..Len(hb) : start <= hb[i].time /\ hb[i].time <= stop}

\* main, lines 359-382: what is kept of one row of events.  The mean of
\* 'Active Power' is the pair of sum and number of the values, NaN being a
\* number of 0
JoinRecord(row) ==
    LET x == row.params
        start == IF "ramp_time" \in DOMAIN x
                 THEN row.start + x["ramp_time"] ELSE row.start
        interval == Window(hobo, start, row.stop)
    IN [params |-> x, batchid |-> row.batchid, start |-> row.start,
        stop |-> row.stop, duration |-> row.stop - row.start,
        num_samples |-> Cardinality(interval),
        watts_mean |-> [sum |-> SumOver(interval, [i \in interval |-> hobo[i].power]),
                        count |-> Cardinality(interval)]]

\* the values of fio's jobname column, in sorting order
JobNames == <<"a", "b">>

\* agg_rows: the groups of df.groupby(keys), one row each
agg_rows(df, key_cols) ==
    LET keys == IF "jobname" \in key_cols THEN key_cols
                ELSE key_cols \cup {"jobname"}
    IN {[c \in keys |-> df.rows[i][c]] : i \in 1..Len(df.rows)}

\* main, line 398: the rows df.join gives row k of df, a left join on key_cols
JoinRows(k, x, groups, key_cols) ==
    LET matches == {g \in groups : \A c \in key_cols : g[c] = x.params[c]}
    IN IF matches = {}
       THEN << [index |-> k, left |-> x, right |-> None] >>
       ELSE Flatten([j \in 1..Len(JobNames) |->
               IF \E g \in matches : g["jobname"] = JobNames[j]
               THEN << [index |-> k, left |-> x,
                        right |-> Some(CHOOSE g \in matches :
                                          g["jobname"] = JobNames[j])] >>
               ELSE <<>>])

\* joinhobo main, lines 356-398, read_log having returned
JoinMain ==
    /\ pc = "joinhobo"
    /\ events # None
    /\ LET data == events[1].data
           df == [k \in 1..Len(data) |-> JoinRecord(data[k])]
           key_cols == UNION {DOMAIN data[k].params : k \in 1..Len(data)}
       IN IF key_cols \subseteq fio.columns
          THEN /\ joined' = Some(Flatten([k \in 1..Len(df) |->
                                 JoinRows(k, df[k], agg_rows(fio, key_cols), key_cols)]))
               /\ pc' = "joined"
          ELSE /\ joined' = joined
               /\ pc' = "crashed"
    /\ UNCHANGED <<cmdline, fio_params, templates, replicate_list, last_batchid,
                   heap, all_jobs, replicate_jobs, rep_idx, job_num, log, output,
                   summary, events, parameters, hobo, fio>>

\* ---------------------------------------------------------- specifications
Next ==
    \/ MainHeader
    \/ StartReplicate
    \/ FinishReplicate
    \/ DropCaches
    \/ Cooldown
    \/ RunBefore
    \/ Popen
    \/ CommunicateTimeout
    \/ CommunicateReturn({0, 1}, {OneLine})
    \/ ProcExit
    \/ Summary
    \/ ReadLogFile

\* runs of few jobs in which every hook and every tool may fail
Spec == Init /\ [][Next]_vars

\* runs of whole sweeps: no hook, no timeout, every tool exits with 0
SweepCmdlines == {c \in Cmdlines : ~c.before /\ ~c.timeout /\ c.cooldown /\ ~c.no_drop_caches}

SweepInit == EngineInit(SweepCmdlines, MaxSweepJobs)

SweepNext ==
    \/ MainHeader
    \/ StartReplicate
    \/ FinishReplicate
    \/ DropCaches
    \/ Cooldown
    \/ RunBefore
    \/ Popen
    \/ CommunicateReturn({0}, {OneLine})
    \/ Summary

SweepSpec == SweepInit /\ [][SweepNext]_vars

\* the values of "replicates" and of "replicate", None for a missing key
ReplicatesValues ==
    {None, Some(JsonStr(2)), Some(JsonBool(TRUE))}
        \cup {Some(JsonInt(n)) : n \in 0..MaxReplicates}

ReplicateValues ==
    {None, Some(JsonList(<<1>>)), Some(JsonList(<<1, 1>>)), Some(JsonInt(1))}

\* the values of "fio": None for a missing key, else the entries of the
\* mapping.  A key is the sweep parameter of its place or a column of fio
FioValues ==
    {None} \cup
    {Some(e) : e \in
        {e \in SeqsUpTo([name : {KeyNames[i] : i \in 1..MaxParams} \cup {"jobname"},
                         value : {JsonList(Candidates(n)) : n \in 0..MaxCandidates}
                                     \cup {JsonInt(1)}],
                        MaxParams) :
            /\ \A i \in 1..Len(e) : e[i].name \in {KeyNames[i], "jobname"}
            /\ \A i, j \in 1..Len(e) : e[i].name = e[j].name => i = j}}

\* the parameter files: a list, and the mappings with a key for the replicates
Docs ==
    {JsonDoc("list", None, None, None)} \cup
    {d \in {JsonDoc("dict", n, l, f) :
               n \in ReplicatesValues, l \in ReplicateValues, f \in FioValues} :
        d.replicates # None \/ d.replicate # None}

\* the replicates and the combinations per template a document asks for
DocReplicates(doc) ==
    IF doc.replicates # None THEN doc.replicates[1].v
    ELSE IF doc.replicate = None THEN 0
    ELSE IF doc.replicate[1].type = "list" THEN Len(doc.replicate[1].v) ELSE 1

DocCombinations(doc) ==
    IF doc.fio = None THEN 0
    ELSE Prod([i \in 1..Len(doc.fio[1]) |->
                  IF doc.fio[1][i].value.type = "list"
                  THEN Len(doc.fio[1][i].value.v) ELSE 1])

\* the state in which parse_cmdline calls read_params
ConfigInit ==
    /\ cmdline \in SweepCmdlines
    /\ parameters \in Docs
    /\ templates \in 1..MaxTemplates
    /\ templates * DocCombinations(parameters) * DocReplicates(parameters)
          <= MaxConfigJobs
    /\ ~cmdline.norandom => DocCombinations(parameters) <= MaxShuffled
    /\ fio_params = <<>>
    /\ replicate_list = <<>>
    /\ last_batchid \in BatchidBases
    /\ heap = <<>>
    /\ all_jobs = <<>>
    /\ replicate_jobs = <<>>
    /\ rep_idx = 1
    /\ job_num = 1
    /\ pc = "parse_cmdline"
    /\ log = <<>>
    /\ output = <<>>
    /\ summary = None
    /\ events = None
    /\ hobo = <<>>
    /\ fio = <<>>
    /\ joined = None

ConfigNext ==
    \/ ParseCmdline
    \/ MainHeader
    \/ StartReplicate
    \/ FinishReplicate
    \/ DropCaches
    \/ Cooldown
    \/ RunBefore
    \/ Popen
    \/ CommunicateReturn({0}, {OneLine})
    \/ Summary

\* runs from the parameter file on: no hook, no timeout, every tool exits
\* with 0
ConfigSpec == ConfigInit /\ [][ConfigNext]_vars

\* the outputs of a tool: result lines and empty lines
ToolOutputs == SeqsUpTo({"", "r"}, MaxLines)

OutputInit == EngineInit(SweepCmdlines, MaxJobs)

OutputNext ==
    \/ MainHeader
    \/ StartReplicate
    \/ FinishReplicate
    \/ DropCaches
    \/ Cooldown
    \/ RunBefore
    \/ Popen
    \/ CommunicateReturn({0}, ToolOutputs)
    \/ Summary

\* runs of few jobs whose tools exit with 0 and print what they like
OutputSpec == OutputInit /\ [][OutputNext]_vars

\* a log file of start and stop lines, whatever wrote it
LogParams == {JobStr(<<v>>, 1) : v \in 1..2}

LogEvents == [event : {"start", "stop"}, batchid : 1..MaxLogIds, params : LogParams]

LogFiles ==
    {[i \in 1..Len(c) |-> LogLine(i, "INFO", c[i].event, c[i].batchid, c[i].params)] :
        c \in SeqsUpTo(LogEvents, MaxLogLen)}

LogInit ==
    /\ log \in LogFiles
    /\ pc = "joinhobo"
    /\ events = None
    /\ cmdline = [timeout |-> FALSE, before |-> FALSE, norandom |-> FALSE,
                  cooldown |-> FALSE, no_drop_caches |-> FALSE]
    /\ fio_params = <<>>
    /\ templates = 1
    /\ replicate_list = <<>>
    /\ last_batchid = 0
    /\ heap = <<>>
    /\ all_jobs = <<>>
    /\ replicate_jobs = <<>>
    /\ rep_idx = 1
    /\ job_num = 1
    /\ output = <<>>
    /\ summary = None
    /\ parameters = RawDoc(fio_params, replicate_list)
    /\ hobo = <<>>
    /\ fio = <<>>
    /\ joined = None

LogNext == ReadLogFile

LogSpec == LogInit /\ [][LogNext]_vars

\* the parameter strings of the jobs of a sweep over bs, and over bs and
\* ramp_time
PlainParams == {JobStr(<<v>>, 1) : v \in 1..2}

RampParams ==
    {<< <<"bs", v>>, <<"ramp_time", g>>, <<"replicate", 1>> >> : v \in 1..2, g \in 1..2}

\* the log of a run of jobs that ran one after the other and all succeeded:
\* job k started at 4k-2 and stopped at 4k
JoinLogs(paramset) ==
    {Flatten([k \in 1..Len(c) |->
                << LogLine(4 * k - 2, "INFO", "start", k, c[k]),
                   LogLine(4 * k, "INFO", "stop", k, c[k]) >>]) :
        c \in SeqsUpTo(paramset, MaxLogLen \div 2) \ { <<>> }}

\* the HOBO files: measurements of 1 or 2 watts at increasing times
HoboFiles ==
    {h \in SeqsUpTo([time : 1..(2 * MaxLogLen + 1), power : 1..2], MaxSamples) :
        \A i \in 1..(Len(h) - 1) : h[i].time < h[i + 1].time}

\* the fio result files of a sweep over bs
FioFiles ==
    {Frame({"replicate", "bs", "jobname"}, rows) :
        rows \in SeqsUpTo([replicate : {1}, bs : 1..2, jobname : {"a", "b"}],
                          MaxFioRows)}

\* the texts of a cell of the fio file: '0', '5%', 'a%', '5%=7', ...
Texts ==
    {Text(head, pct, right) :
        head \in {"0", "5", "a"}, pct \in BOOLEAN,
        right \in {None, Some("0"), Some("7")}}

\* the frames pd.read_csv returns for fio files of one column of texts
TextFiles ==
    {Frame({"c"}, rows) : rows \in SeqsUpTo([c : Texts], MaxFioRows) \ { <<>> }}

\* the state in which joinhobo is at the place at of main, given the three
\* files
JoinInit(logs, hobos, fios, at) ==
    /\ log \in logs
    /\ hobo \in hobos
    /\ fio \in fios
    /\ joined = None
    /\ pc = at
    /\ events = None
    /\ cmdline = [timeout |-> FALSE, before |-> FALSE, norandom |-> FALSE,
                  cooldown |-> FALSE, no_drop_caches |-> FALSE]
    /\ fio_params = <<>>
    /\ templates = 1
    /\ replicate_list = <<>>
    /\ last_batchid = 0
    /\ heap = <<>>
    /\ all_jobs = <<>>
    /\ replicate_jobs = <<>>
    /\ rep_idx = 1
    /\ job_num = 1
    /\ output = <<>>
    /\ summary = None
    /\ parameters = RawDoc(fio_params, replicate_list)

JoinNext ==
    \/ ReadLogFile
    \/ JoinMain

\* read_fio on the fio files of texts, and its two passes once more
ConvertInit == JoinInit({ <<>> }, { <<>> }, TextFiles, "read_fio")

ConvertNext ==
    \/ ReadFio
    \/ ConvertPercentages
    \/ ConvertHistogram

ConvertSpec == ConvertInit /\ [][ConvertNext]_vars

HoboInit ==
    JoinInit(JoinLogs(PlainParams) \cup JoinLogs(RampParams), HoboFiles,
             {Frame({"replicate", "bs", "ramp_time", "jobname"}, <<>>)},
             "joinhobo")

HoboSpec == HoboInit /\ [][JoinNext]_vars

\* joinhobo over the fio files, the HOBO file having no measurement
FioInit == JoinInit(JoinLogs(PlainParams), { <<>> }, FioFiles, "joinhobo")

JoinSpec == FioInit /\ [][JoinNext]_vars

\* ------------------------------------------------------------------ claims
Jobs == 1..Len(heap)

Running == {r \in Jobs : heap[r].proc = "running"}

RowsOf(r) == {k \in 1..Len(output) : output[k].job = r}

LinesOf(event, batchid) ==
    {i \in 1..Len(log) : log[i].event = event /\ log[i].batchid = batchid}

ErrorLogged == \E i \in 1..Len(log) : log[i].level = "ERROR"

\* C1: at every point of a run at most one tool process spawned by the
\* engine is alive, also after a job was classified as timed out.
C1_AtMostOneToolProcess == Cardinality(Running) <= 1

\* C2: once a job is classified as failed because its tool exceeded the
\* timeout, its tool process is no longer running.
C2_TimedOutProcessTerminated ==
    \A r \in Jobs :
        (heap[r].timedout /\ heap[r].success = "False") => heap[r].proc # "running"

\* C3: a job that failed (non-zero exit or timeout) has logged a "start"
\* line and an error line, and no "stop" line.
C3_NoStopForFailedJob ==
    \A r \in Jobs :
        heap[r].success = "False" =>
            /\ LinesOf("start", heap[r].batchid) # {}
            /\ ErrorLogged
            /\ LinesOf("stop", heap[r].batchid) = {}

\* C7: a pre-hook that exits non-zero is logged and never aborts the job or
\* the batch: the engine goes on to the job's "start" line and its tool.
C7_PreHookFailureNeverAborts ==
    \A r \in Jobs :
        heap[r].before = "nonzero" =>
            /\ pc # "crashed"
            /\ \E i \in 1..Len(log) : log[i].event = "Process returned"
            /\ pc \in {"communicate", "job", "replicate", "done"}
                  => LinesOf("start", heap[r].batchid) # {}

\* C8: a job's outcome is success exactly when its tool returned exit code
\* zero before the timeout; a timeout and a non-zero exit both end in failure,
\* and then no row of the job is in the result stream.
C8_SuccessIffZeroExit ==
    \A r \in Jobs :
        /\ heap[r].success = "True" <=>
              (heap[r].returncode = Some(0) /\ ~heap[r].timedout)
        /\ (heap[r].timedout \/ heap[r].returncode \notin {None, Some(0)}) =>
              (heap[r].success = "False" /\ RowsOf(r) = {})

\* a run with a job that exited non-zero and a job that succeeded, ended
C8_Witness ==
    /\ pc = "done"
    /\ \E r1, r2 \in Jobs :
         /\ heap[r1].returncode = Some(1) /\ heap[r1].success = "False"
         /\ heap[r2].returncode = Some(0) /\ heap[r2].success = "True"
         /\ RowsOf(r2) # {}

AllExecuted ==
    /\ rep_idx > Len(replicate_list)
    /\ \A r \in Jobs : heap[r].success # "None"
    /\ summary # None

\* C9: whatever the outcomes of the jobs, the engine stops only after every
\* generated job of every replicate was executed and the counts were reported.
C9_StopsOnlyAfterWholeSweep == pc \in {"done", "crashed"} => AllExecuted

\* the engine aborts only where a pre-hook exited non-zero
CrashOnlyFromPreHook ==
    pc = "crashed" => \E r \in Jobs : heap[r].before = "nonzero"

\* the replicates whose jobs have been constructed
Expanded ==
    {i \in 1..Len(replicate_list) :
        i < rep_idx \/ (i = rep_idx /\ pc \notin {"main", "replicate"})}

\* C10: the number of jobs generated per replicate is the number of
\* templates times the product of the lengths of the candidate lists; with an
\* empty candidate list the expansion ends with zero jobs, not with an error.
C10_JobsPerReplicate ==
    \A i \in Expanded :
        /\ replicate_list[i] \in DOMAIN all_jobs
        /\ Len(all_jobs[replicate_list[i]]) = templates * Prod(Lens(fio_params))
        /\ (\E k \in 1..Len(fio_params) : fio_params[k] = <<>>)
              => all_jobs[replicate_list[i]] = <<>>

\* two templates over two parameters of two candidates each: eight jobs
C10_Witness ==
    /\ pc = "done"
    /\ templates = 2
    /\ Lens(fio_params) = <<2, 2>>
    /\ 1 \in DOMAIN all_jobs
    /\ Len(all_jobs[1]) = 8

\* the lines of the log read_log looks at
EventLines == {i \in 1..Len(log) : log[i].nfields = 5}

\* a "start" line and a later "stop" line of the same job
Matched(i, j) ==
    /\ i < j
    /\ log[i].event = "start" /\ log[j].event = "stop"
    /\ log[i].batchid = log[j].batchid
    /\ log[i].params = log[j].params

UnmatchedStart(i) ==
    log[i].event = "start" /\ ~\E j \in EventLines : Matched(i, j)

UnmatchedStop(j) ==
    log[j].event = "stop" /\ ~\E i \in EventLines : Matched(i, j)

Data == events[1].data

Warned(i) ==
    \E w \in 1..Len(events[1].warnings) : events[1].warnings[w].time = log[i].time

\* C4: every record of read_log pairs a "stop" line with a "start" line of
\* the same parameter string and the same batchid, and the record's start
\* time is the timestamp of that "start" line.
C4_RecordsPairOneJob ==
    events # None =>
        \A k \in 1..Len(Data) :
            \E i, j \in EventLines :
                /\ Matched(i, j)
                /\ Data[k].batchid = log[i].batchid
                /\ Data[k].params = ParseParams(log[i].params)
                /\ Data[k].start = log[i].time
                /\ Data[k].stop = log[j].time

\* C5: every "start" line without a matching "stop" line, the last line of
\* the log included, and every "stop" line without a matching "start" line is
\* reported by a warning and is part of no record.
C5_UnmatchedReportedAndExcluded ==
    events # None =>
        \A i \in EventLines :
            /\ UnmatchedStart(i) =>
                  (Warned(i) /\ \A k \in 1..Len(Data) : Data[k].start # log[i].time)
            /\ UnmatchedStop(i) =>
                  (Warned(i) /\ \A k \in 1..Len(Data) : Data[k].stop # log[i].time)

\* a "start" line directly followed by the "stop" line of the same job
Adjacent(i, j) ==
    /\ Matched(i, j)
    /\ ~\E m \in EventLines : i < m /\ m < j

\* C6: after an unmatched "start" line reconciliation continues: every later
\* job whose "start" line is directly followed by its own "stop" line yields
\* exactly one record.
C6_LaterJobsStillRecorded ==
    events # None =>
        \A u, i, j \in EventLines :
            (UnmatchedStart(u) /\ u < i /\ Adjacent(i, j)) =>
                Cardinality({k \in 1..Len(Data) :
                                /\ Data[k].batchid = log[i].batchid
                                /\ Data[k].stop = log[j].time}) = 1

\* C11: within one run the batchids of the generated jobs are pairwise
\* different: every construction takes a value above all values taken before,
\* across templates and replicates, and the counter is never below one of them.
C11_UniqueBatchids ==
    /\ \A r1, r2 \in Jobs : r1 < r2 => heap[r1].batchid < heap[r2].batchid
    /\ \A r \in Jobs : heap[r].batchid <= last_batchid

\* a finished run of two templates over two replicates
C11_Witness ==
    /\ pc = "done"
    /\ templates = 2
    /\ Len(replicate_list) = 2
    /\ Len(heap) >= 4
    /\ \E r1, r2 \in Jobs : heap[r1].template # heap[r2].template
    /\ \E r1, r2 \in Jobs : heap[r1].replicate # heap[r2].replicate

NonEmpty(line) == line # ""

\* the rows of job r in the result stream, in the order written
RowSeq(r) ==
    LET OfJob(row) == row.job = r
    IN SelectSeq(output, OfJob)

\* C12: the rows of a successful job are exactly one per non-empty line of
\* its tool's output, in order, each led by the job's values of the header's
\* key columns (replicate first); no row lacks them and no row stands for an
\* empty line, also when the tool printed nothing.
C12_OneRowPerNonEmptyLine ==
    \A r \in Jobs :
        heap[r].success = "True" =>
            LET lines == SelectSeq(heap[r].stdout[1], NonEmpty)
            IN RowSeq(r) = [i \in 1..Len(lines) |->
                              [job |-> r,
                               prefix |-> <<heap[r].replicate>> \o heap[r].mapping,
                               line |-> lines[i]]]

TimedOut == {r \in Jobs : heap[r].timedout}

\* C13: a job whose tool exceeded the timeout has no row in the result
\* stream, an error line in the log and no "stop" line of its batchid, and
\* read_log returns no record of that batchid.
C13_TimedOutJobLeavesNoStop ==
    /\ Cardinality({i \in 1..Len(log) :
                       log[i].level = "ERROR" /\ log[i].event = "Timeout waiting for"})
          = Cardinality(TimedOut)
    /\ \A r \in TimedOut :
          /\ RowsOf(r) = {}
          /\ LinesOf("start", heap[r].batchid) # {}
          /\ LinesOf("stop", heap[r].batchid) = {}
          /\ events # None =>
                \A k \in 1..Len(Data) : Data[k].batchid # heap[r].batchid

\* a finished run with a timed-out job and a job read_log returned a record of
C13_Witness ==
    /\ pc = "done"
    /\ events # None
    /\ TimedOut # {}
    /\ \E r \in Jobs \ TimedOut :
          \E k \in 1..Len(Data) : Data[k].batchid = heap[r].batchid

\* the measurements of the half-open interval from start + ramp_time to stop
HalfOpen(x) ==
    LET start == IF "ramp_time" \in DOMAIN x.params
                 THEN x.start + x.params["ramp_time"] ELSE x.start
    IN {i \in 1..Len(hobo) : start <= hobo[i].time /\ hobo[i].time < x.stop}

\* C14: for every record of the log the number of samples and the mean
\* power are those of the measurements at the times t with
\* start + ramp_time <= t < stop: a measurement at the stop time is not among
\* them, and without any the number is 0.
C14_HalfOpenWindow ==
    joined # None =>
        \A n \in 1..Len(joined[1]) :
            LET x == joined[1][n].left
            IN /\ x.num_samples = Cardinality(HalfOpen(x))
               /\ x.watts_mean.count = Cardinality(HalfOpen(x))
               /\ x.watts_mean.sum =
                     SumOver(HalfOpen(x), [i \in HalfOpen(x) |-> hobo[i].power])

\* C15: the joined frame has exactly one row per record of the log, also
\* where the fio file holds several lines of one job, of different jobnames.
C15_OneJoinedRowPerRecord ==
    joined # None =>
        \A k \in 1..Len(events[1].data) :
            Cardinality({n \in 1..Len(joined[1]) : joined[1][n].index = k}) = 1

\* the malformed parameter files: no mapping at the top, no "fio" mapping,
\* "replicates" not an integer
Malformed(doc) ==
    \/ doc.type # "dict"
    \/ doc.fio = None
    \/ doc.replicates # None /\ doc.replicates[1].type # "int"

\* C16: with a malformed parameter file the run ends before a job is
\* constructed and before a tool is started; nothing is logged or written.
C16_MalformedSpecAborts ==
    Malformed(parameters) =>
        /\ pc \in {"parse_cmdline", "crashed"}
        /\ heap = <<>>
        /\ log = <<>>
        /\ output = <<>>

\* a run ended by a "replicates" that is no integer, the rest well-formed
C16_Witness ==
    /\ pc = "crashed"
    /\ parameters.type = "dict"
    /\ parameters.fio # None
    /\ parameters.replicate = None
    /\ parameters.replicates # None
    /\ parameters.replicates[1].type # "int"
    /\ \A i \in 1..Len(parameters.fio[1]) : parameters.fio[1][i].name \notin fio_cols

\* a well-formed parameter file with a sweep parameter named like a column
\* of fio
Colliding(doc) ==
    /\ ~Malformed(doc)
    /\ ~(doc.replicates # None /\ doc.replicate # None)
    /\ \E i \in 1..Len(doc.fio[1]) : doc.fio[1][i].name \in fio_cols

\* C17: a sweep parameter named like a column of fio is warned about and the
\* run goes on: the sweep is expanded and all of its jobs are executed.
C17_CollisionOnlyWarns ==
    Colliding(parameters) =>
        /\ pc # "crashed"
        /\ pc = "done" => AllExecuted

\* the sweep {fio: {bs: [4k, 8k]}, replicates: 2} with one template
TheSweep ==
    /\ parameters = JsonDoc("dict", Some(JsonInt(2)), None,
                            Some(<< FioEntry("bs", JsonList(<<1, 2>>)) >>))
    /\ templates = 1

DataRows == {k \in 1..Len(output) : output[k].job # 0}

\* C18 as the specification states it: 4 jobs per replicate, 8 jobs and 8
\* data rows
C18_FourJobsPerReplicate ==
    (TheSweep /\ pc = "done") =>
        /\ \A r \in DOMAIN all_jobs : Len(all_jobs[r]) = 4
        /\ Len(heap) = 8
        /\ Cardinality(DataRows) = 8
        /\ output[1].prefix = <<"replicate", "bs">>

\* C18: the sweep {fio: {bs: [4k, 8k]}, replicates: 2} with one template
\* gives 2 jobs per replicate and 4 jobs in all, and, every job succeeding
\* with one output line, a result file of 4 data rows under the key columns
\* replicate;bs.
C18_TwoJobsPerReplicate ==
    (TheSweep /\ pc = "done") =>
        /\ DOMAIN all_jobs = {1, 2}
        /\ \A r \in DOMAIN all_jobs : Len(all_jobs[r]) = 2
        /\ Len(heap) = 4
        /\ \A r \in Jobs : heap[r].success = "True"
        /\ Cardinality(DataRows) = 4
        /\ \A k \in DataRows : Len(output[k].prefix) = 2
        /\ output[1].prefix = <<"replicate", "bs">>

\* the run of that sweep, ended
C18_Witness == TheSweep /\ pc = "done" /\ summary # None

\* the last line of an event above line i of the log, 0 if there is none
LastAbove(event, i) ==
    LET above == {j \in 1..(i - 1) : log[j].event = event}
    IN IF above = {} THEN 0 ELSE CHOOSE j \in above : \A m \in above : m <= j

StartLines == {i \in 1..Len(log) : log[i].event = "start"}

BothEnabled == cmdline.before /\ ~cmdline.no_drop_caches

C19_PassesIdempotent ==
    [][pc = "normalized" => (pc' = "normalized" /\ fio' = fio)]_vars

\* the same of the frames that hold no column of pairs
C19_IdempotentWithoutPairs ==
    [][(/\ pc = "normalized"
        /\ \A c \in fio.columns : \A i \in 1..Len(fio.rows) :
              fio.rows[i][c].t # "tuple")
       => (pc' = "normalized" /\ fio' = fio)]_vars

\* the jobs of a replicate (by its place in the list) and a template, in the
\* order in which main runs them
JobsOf(i, t) ==
    LET refs == all_jobs[replicate_list[i]]
        OfTemplate(r) == heap[r].template = t
    IN SelectSeq(refs, OfTemplate)

\* C21: for every replicate and every template, shuffled or not, the
\* mappings of the jobs are those of the cartesian product of the candidate
\* lists, each combination once; the shuffle changes the order only.  At the
\* end of the run each of these jobs has been executed.
C21_EveryCombinationOnce ==
    LET combinations == product(fio_params)
    IN \A i \in Expanded : \A t \in 1..templates :
         /\ Len(JobsOf(i, t)) = Len(combinations)
         /\ \A k \in 1..Len(combinations) :
               Cardinality({j \in 1..Len(JobsOf(i, t)) :
                               heap[JobsOf(i, t)[j]].mapping = combinations[k]}) = 1
         /\ \A j \in 1..Len(JobsOf(i, t)) :
               /\ heap[JobsOf(i, t)[j]].replicate = replicate_list[i]
               /\ pc = "done" => heap[JobsOf(i, t)[j]].success # "None"

\* a finished shuffled run of two replicates whose orders differ, the first
\* not in the order of the product
C21_Witness ==
    /\ pc = "done"
    /\ ~cmdline.norandom
    /\ Len(replicate_list) = 2
    /\ Len(product(fio_params)) >= 3
    /\ [j \in 1..Len(JobsOf(1, 1)) |-> heap[JobsOf(1, 1)[j]].mapping]
          # product(fio_params)
    /\ [j \in 1..Len(JobsOf(1, 1)) |-> heap[JobsOf(1, 1)[j]].mapping]
          # [j \in 1..Len(JobsOf(2, 1)) |-> heap[JobsOf(2, 1)[j]].mapping]

\* the line above a "start" line is the last one of the job's own
\* preparation: the pre-hook when one is given, else the cooldown when one is
\* given, else the "Starting job" line that follows drop_caches
PreparedAbove(i) ==
    /\ i > 1
    /\ log[i - 1].event \in
          IF cmdline.before THEN {"Before", "Output"}
          ELSE IF cmdline.cooldown THEN {"cooldown"}
          ELSE {"Starting job"}

\* the line below a "start" line is the "stop" line of the same job or the
\* error line of its timeout
ClosedBelow(i) ==
    i < Len(log) =>
        \/ log[i + 1].event = "stop" /\ log[i + 1].batchid = log[i].batchid
        \/ log[i + 1].event = "Timeout waiting for"

\* what holds of the engine's own steps in every run: a job is prepared
\* before its "start" line and nothing is logged or written between that
\* line and the job's "stop" or error line
C22_EngineStepsOutsideInterval ==
    /\ \A i \in StartLines : PreparedAbove(i) /\ ClosedBelow(i)
    /\ pc = "communicate" =>
          /\ log[Len(log)].event = "start"
          /\ log[Len(log)].batchid = CurJob.batchid
          /\ RowsOf(CurRef) = {}
          /\ cmdline.before => CurJob.before = "zero"

\* C22: between the "start" line of a job and its "stop" or error line only
\* the tool of that job executes: the job's cache drop, cooldown and pre-hook
\* are over before the "start" line, no step of another job falls between the
\* two lines, and no tool process of another job is running.
C22_OnlyOwnToolInInterval ==
    /\ C22_EngineStepsOutsideInterval
    /\ pc = "communicate" => Running = {CurRef}

\* the outcome of a job, once set, stays: run sets success on each of its
\* three ways out and nothing else assigns it
C23_OutcomeSetOnce ==
    [][\A r \in Jobs : heap[r].success # "None" =>
                          heap'[r].success = heap[r].success]_vars

\* C23: in a run that reaches the summary every generated job was started
\* once and has an outcome, and the reported number of completed jobs plus
\* the reported number of failed jobs is the number of jobs generated.
C23_CountsAddUpToGenerated ==
    pc = "done" =>
        /\ \A r \in Jobs :
              /\ heap[r].success \in {"True", "False"}
              /\ Cardinality(LinesOf("start", heap[r].batchid)) = 1
        /\ summary[1].completed + summary[1].failed = Len(heap)

====
